---- MODULE Spec2Model ----
(***************************************************************************)
(* Model of the SEI wallet credit scorer (isValidSeiAddress, the five data *)
(* fetchers, DeFiCreditScorer and calculateCreditScore) and of the page    *)
(* Index that calls it.                                                    *)
(*                                                                         *)
(* JavaScript runs every handler to its next await, so one action is one   *)
(* such run: the call of calculateCreditScore up to its first suspension,  *)
(* then one action per response that a suspended fetcher resumes on.       *)
(* The providers are the environment: each response is drawn, when it      *)
(* arrives, from the shapes the handler distinguishes.                     *)
(***************************************************************************)
EXTENDS Integers, Sequences, FiniteSets

VARIABLES
    walletAddress,    \* argument of calculateCreditScore
    limit,            \* argument `limit` of fetchWalletTransactions
    ccs,              \* calculateCreditScore: "idle", "fetching", "returned",
                      \* "invalidAddress", "scoringFailed"
    report,           \* the value calculateCreditScore returned (NoReport before)
    issued,           \* requests sent to a provider so far
    inflight,         \* requests sent and not yet answered
    firstTxInfo,      \* promise of fetchFirstTransactionInfo
    counters,         \* promise of fetchWalletCounters
    balance,          \* promise of fetchWalletBalance
    stakingInfo,      \* promise of fetchStakingInfo
    transactions,     \* promise of fetchWalletTransactions
    qi,               \* fetchWalletTransactions: 0 in tier 1, else index of the
                      \* query whose response the for loop awaits
    allTransactions,  \* fetchWalletTransactions: the local allTransactions
    tier1,            \* history: what the tier-1 explorer request was answered with
    onlyFailures,     \* history: no response so far was anything but a network error,
                      \* a non-2xx status or an unparseable body
    answers,          \* history: what the try block of fetchEvmBalance and the native
                      \* request of fetchWalletBalance ended with, and the hashes the
                      \* well-formed responses to the fallback queries held
    provider,         \* which transactions the providers hold for the address: "one"
                      \* or "several" (never changes)
    scoreToGrade,     \* a final score on which the grade chain of calculate is run
    graded,           \* the grade and risk level the chain gave (NoGrade before)
    userScore,        \* argument of generateComparisonData
    comparison,       \* the value generateComparisonData returned (NoComparison before)
    repayCounts,      \* the transactions of the list scoreRepayment is called on: how
                      \* many carry each method
    repayScore,       \* <<the value scoreRepayment returned>> (<<>> before)
    creditData,       \* Index: the state creditData (NoReport for null)
    comparisonData,   \* Index: the state comparisonData (NoComparison for null)
    isLoading,        \* Index: the state isLoading
    pending,          \* runs of handleWalletSubmit suspended at their await
    started,          \* history: runs of handleWalletSubmit started so far
    failures          \* history: runs of handleWalletSubmit that ended in the catch

vars == <<walletAddress, limit, ccs, report, issued, inflight, firstTxInfo,
          counters, balance, stakingInfo, transactions, qi, allTransactions,
          tier1, onlyFailures, answers, provider, scoreToGrade, graded,
          userScore, comparison, repayCounts, repayScore, creditData,
          comparisonData, isLoading, pending, started, failures>>

(***************************************************************************)
(* Bounds of the model.                                                    *)
(***************************************************************************)
MaxHashes == 2      \* distinct transaction hashes a provider may return
MaxRespLen == 2     \* entries in one provider response
RandomUnits == 10000 \* values of Math.random() told apart
MaxLimit == 2       \* largest `limit` a caller of fetchWalletTransactions passes

(***************************************************************************)
(* Generic helpers.                                                        *)
(***************************************************************************)
Max(a, b) == IF a >= b THEN a ELSE b
Min(a, b) == IF a <= b THEN a ELSE b

SeqsUpTo(S, n) == UNION {[1..k -> S] : k \in 0..n}

RECURSIVE Rep(_, _)
Rep(x, n) == IF n <= 0 THEN <<>> ELSE <<x>> \o Rep(x, n - 1)

Take(s, n) == SubSeq(s, 1, Min(Len(s), n))

(***************************************************************************)
(* Strings are sequences of one-character strings, numbers written in      *)
(* decimal are sequences of digits.                                        *)
(***************************************************************************)
Digit == 0..9

RECURSIVE NumberToString(_)
NumberToString(n) ==
    IF n < 10 THEN <<n>> ELSE NumberToString(n \div 10) \o <<n % 10>>

RECURSIVE parseInt(_)
parseInt(s) ==
    IF Len(s) = 1 THEN s[1]
    ELSE 10 * parseInt(SubSeq(s, 1, Len(s) - 1)) + s[Len(s)]

(***************************************************************************)
(* A method name as the explorer reports it: absent, a string, or a JSON   *)
(* value that is no string.                                                *)
(***************************************************************************)
UndefinedMethod == [k |-> "undefined", s |-> <<>>]
StringMethod(str) == [k |-> "string", s |-> str]
NonStringMethod == [k |-> "other", s |-> <<>>]

(***************************************************************************)
(* Transactions in the canonical shape fetchWalletTransactions returns.    *)
(* A null entry of a provider's list is kept as it is by the code, so it   *)
(* is a value of the model too.  Of the fields of an entry only txhash,    *)
(* height and method are ever read; timestamp, tx, logs, to and from are   *)
(* left out.                                                               *)
(***************************************************************************)
Tx(hash, height, method) ==
    [isNull |-> FALSE, txhash |-> hash, height |-> height, method |-> method]
NullTx == [isNull |-> TRUE, txhash |-> 0, height |-> <<0>>, method |-> UndefinedMethod]

Hashes == 1..MaxHashes
\* "9" and "10": decimal strings whose order as strings is not their order as numbers
\* a transaction is in one block: odd hashes at height "9", even ones at "10"
HeightOfHash(h) == IF h % 2 = 1 THEN <<9>> ELSE <<1, 0>>
BlockNumbers == {9, 10}

(***************************************************************************)
(* The transactions the providers hold for the address.                    *)
(***************************************************************************)
UndefinedNumber == [k |-> "undefined", v |-> 0]
Number(n) == [k |-> "number", v |-> n]

\* "several", for a call of a fetcher alone: every hash
\* "one", for a call of calculateCreditScore: a single transaction
\* The entries of one response about transactions: a provider that holds one
\* transaction answers with one entry at most
RespLenOf(p) == IF p = "several" THEN MaxRespLen ELSE 1

RestTxsOf(p) ==
    IF p = "several"
    THEN {Tx(h, HeightOfHash(h), UndefinedMethod) : h \in Hashes} \cup {NullTx}
    ELSE {Tx(1, <<9>>, UndefinedMethod), NullTx}

(***************************************************************************)
(* Responses of the REST transaction search (SeiTransactionResponse).      *)
(*   kind "neterr": fetch rejects; "status": response.ok is false;         *)
(*   "badjson": response.json() rejects; "nullbody": the body is the JSON  *)
(*   value null, so reading a field of it throws; "json": a parsed body,   *)
(*   whose txs field is absent (hasTxs = FALSE) or a list.                 *)
(***************************************************************************)
FailureKinds == {"neterr", "status", "badjson", "nullbody"}

RestFailures == {[kind |-> k, hasTxs |-> FALSE, txs |-> <<>>] : k \in FailureKinds}

RestResponses ==
    RestFailures
    \cup {[kind |-> "json", hasTxs |-> FALSE, txs |-> <<>>]}
    \cup {[kind |-> "json", hasTxs |-> TRUE, txs |-> l] :
            l \in SeqsUpTo(RestTxsOf(provider), RespLenOf(provider))}

(***************************************************************************)
(* fetchWalletTransactions, tier 2: the five event filters, in the order   *)
(* of the array `queries`.                                                 *)
(***************************************************************************)
queries ==
    <<"message.sender", "transfer.recipient", "transfer.sender",
      "coin_received.receiver", "coin_spent.spender">>

\* The requests the for loop sends once i responses have been handled: the
\* loop awaits each fetch before it starts the next.
QueriesSentAfter(i) == IF i < Len(queries) THEN {queries[i + 1]} ELSE {}

\* allTransactions.some(existing => existing.txhash === tx.txhash), for an entry tx
\* of a response: whether the callback dereferences null before it finds a match.
SomeThrows(acc, tx) ==
    /\ acc # <<>>
    /\ \/ tx.isNull
       \/ \E j \in 1..Len(acc) :
            /\ acc[j].isNull
            /\ \A i \in 1..(j - 1) : acc[i].txhash # tx.txhash

SomeMatches(acc, tx) == \E j \in 1..Len(acc) : acc[j].txhash = tx.txhash

\* data.txs.filter(tx => !allTransactions.some(...)): every entry is tested against
\* allTransactions as it was before this response.
NewTxs(acc, txs) == SelectSeq(txs, LAMBDA tx : ~SomeMatches(acc, tx))

\* One pass of the loop body on a response (lines 220-236): a rejected fetch, a
\* rejected json() and a throw in the filter end in the catch, which leaves
\* allTransactions as it was.
MergeResponse(acc, resp) ==
    IF resp.kind # "json" THEN acc
    ELSE IF ~resp.hasTxs \/ Len(resp.txs) = 0 THEN acc
    ELSE IF \E i \in 1..Len(resp.txs) : SomeThrows(acc, resp.txs[i]) THEN acc
    ELSE acc \o NewTxs(acc, resp.txs)

\* Mutant: the comparator with its operands swapped, which sorts ascending
StaysBeforeAscending(a, b) == parseInt(a.height) - parseInt(b.height) <= 0

\* (a, b) => parseInt(b.height) - parseInt(a.height) <= 0: a stays before b
StaysBefore(a, b) == parseInt(b.height) - parseInt(a.height) <= 0

\* Array.prototype.sort is stable: an entry is placed behind every entry that
\* may stay before it.
RECURSIVE InsertSorted(_, _)
InsertSorted(sorted, x) ==
    IF sorted = <<>> THEN <<x>>
    ELSE IF StaysBefore(sorted[1], x) THEN <<sorted[1]>> \o InsertSorted(Tail(sorted), x)
    ELSE <<x>> \o sorted

RECURSIVE SortByHeight(_)
SortByHeight(s) ==
    IF s = <<>> THEN <<>>
    ELSE InsertSorted(SortByHeight(SubSeq(s, 1, Len(s) - 1)), s[Len(s)])

\* The comparator reads .height of its arguments: with two or more entries every
\* entry is compared, and a null one throws.
SortThrows(s) == Len(s) >= 2 /\ \E i \in 1..Len(s) : s[i].isNull

\* Lines 239-246: sort, slice, and the outer catch, which returns [].
Tier2Result(acc, lim) ==
    IF SortThrows(acc) THEN <<>> ELSE Take(SortByHeight(acc), lim)

(***************************************************************************)
(* Wallet addresses.  The two patterns of isValidSeiAddress read a string  *)
(* as a prefix, the number of characters after it and the kinds of         *)
(* characters among them, so an address is given by these three.           *)
(***************************************************************************)
CharClasses == {"digit", "a-f", "g-z", "A-F", "G-Z", "symbol"}

Address(prefix, len, classes) == [prefix |-> prefix, len |-> len, classes |-> classes]

BECH32_MIN == 39
BECH32_MAX == 59
EVM_LEN == 40

\* Mutant: /^sei[a-z0-9]{39,}$/, the upper bound of the length dropped
bech32RegexOpenEnded(address) ==
    /\ address.prefix = "sei"
    /\ address.len >= BECH32_MIN
    /\ address.classes \subseteq {"digit", "a-f", "g-z"}

\* /^sei[a-z0-9]{39,59}$/
bech32Regex(address) ==
    /\ address.prefix = "sei"
    /\ address.len >= BECH32_MIN
    /\ address.len <= BECH32_MAX
    /\ address.classes \subseteq {"digit", "a-f", "g-z"}

\* /^0x[a-fA-F0-9]{40}$/
evmRegex(address) ==
    /\ address.prefix = "0x"
    /\ address.len = EVM_LEN
    /\ address.classes \subseteq {"digit", "a-f", "A-F"}

isValidSeiAddress(address) == bech32Regex(address) \/ evmRegex(address)

\* walletAddress.startsWith('0x')
startsWith0x(address) == address.prefix = "0x"

(***************************************************************************)
(* Method names and the string operations scoreRepayment applies to them.  *)
(***************************************************************************)
UpperCase == <<"A", "B", "C", "D", "E", "F", "G", "H", "I", "J", "K", "L", "M",
               "N", "O", "P", "Q", "R", "S", "T", "U", "V", "W", "X", "Y", "Z">>
LowerCase == <<"a", "b", "c", "d", "e", "f", "g", "h", "i", "j", "k", "l", "m",
               "n", "o", "p", "q", "r", "s", "t", "u", "v", "w", "x", "y", "z">>

\* The lower-case letter of each upper-case letter
LowerOf ==
    [c \in {UpperCase[i] : i \in 1..Len(UpperCase)} |->
        LowerCase[CHOOSE i \in 1..Len(UpperCase) : UpperCase[i] = c]]

toLowerCaseChar(c) == IF c \in DOMAIN LowerOf THEN LowerOf[c] ELSE c

toLowerCase(str) == [i \in 1..Len(str) |-> toLowerCaseChar(str[i])]

includes(str, sub) ==
    \E i \in 1..(Len(str) - Len(sub) + 1) : SubSeq(str, i, i + Len(sub) - 1) = sub

borrow == <<"b", "o", "r", "r", "o", "w">>
repay == <<"r", "e", "p", "a", "y">>
liquidat == <<"l", "i", "q", "u", "i", "d", "a", "t">>
lend == <<"l", "e", "n", "d">>
swap == <<"s", "w", "a", "p">>

\* Method names a lending protocol's transactions carry
BorrowMethod == <<"B", "o", "r", "r", "o", "w">>
repayBorrowMethod == <<"r", "e", "p", "a", "y", "B", "o", "r", "r", "o", "w">>
liquidateMethod == liquidat \o <<"e">>
transferMethod == <<"t", "r", "a", "n", "s", "f", "e", "r">>

\* tx.method?.toLowerCase() of a transaction whose method is absent or a string
lowerMethod(tx) == IF tx.method.k = "string" THEN toLowerCase(tx.method.s) ELSE <<>>

\* tx.method?.toLowerCase().includes(key)
methodIncludes(tx, key) == tx.method.k = "string" /\ includes(lowerMethod(tx), key)

\* Reading tx.method of a null entry, or calling toLowerCase on a method that is
\* no string, throws a TypeError.
methodThrows(tx) == tx.isNull \/ tx.method.k = "other"

(***************************************************************************)
(* Numbers.  The scores are fractions of integers: a number is a record    *)
(* [n, d] standing for n/d with d > 0.  (On every input of this model the  *)
(* doubles of the code give the same comparisons and the same rounding as  *)
(* the exact fractions.)                                                   *)
(***************************************************************************)
Num(n) == [n |-> n, d |-> 1]
IsInteger(q) == q.n % q.d = 0
GreaterEq(q, k) == q.n >= k * q.d

\* Mutant: Math.floor in the place of Math.round
MathFloor(q) == [n |-> q.n \div q.d, d |-> 1]

\* Math.round: the nearest integer, a half rounded up
MathRound(q) == [n |-> (2 * q.n + q.d) \div (2 * q.d), d |-> 1]

\* Math.max(lo, Math.min(hi, q))
MathMaxMin(lo, hi, q) ==
    IF q.n > hi * q.d THEN Num(hi) ELSE IF q.n < lo * q.d THEN Num(lo) ELSE q

(***************************************************************************)
(* A balance is a decimal number: whole units and the digits after the     *)
(* point, without trailing zeros.  NaN is what parseInt gives on a value   *)
(* that does not start with a digit.                                       *)
(***************************************************************************)
RECURSIVE StripTrailingZeros(_)
StripTrailingZeros(ds) ==
    IF ds # <<>> /\ ds[Len(ds)] = 0
    THEN StripTrailingZeros(SubSeq(ds, 1, Len(ds) - 1))
    ELSE ds

Decimal(whole, frac) == [nan |-> FALSE, whole |-> whole, frac |-> StripTrailingZeros(frac)]
NaN == [nan |-> TRUE, whole |-> 0, frac |-> <<>>]

\* x > k, for an integer k >= 0; false on NaN
GreaterThan(x, k) == ~x.nan /\ (x.whole > k \/ (x.whole = k /\ x.frac # <<>>))

(***************************************************************************)
(* DeFiCreditScorer.                                                       *)
(***************************************************************************)
BASE_SCORE == 500

\* Mutant: a repayment weight with which the weights sum to 1.05
WEIGHTSRepaymentHeavy ==
    [age |-> 15, transactions |-> 20, balance |-> 25, repayment |-> 35, defi |-> 10]

\* WEIGHTS, in hundredths
WEIGHTS == [age |-> 15, transactions |-> 20, balance |-> 25, repayment |-> 30, defi |-> 10]
WeightUnit == 100

NullDays == [k |-> "null", v |-> 0]
NaNDays == [k |-> "nan", v |-> 0]
Days(n) == [k |-> "number", v |-> n]

\* Mutant: an unknown age scored like a very new account
scoreAgeNullAsNew(days) ==
    IF days.k = "number" /\ days.v > 730 THEN 100
    ELSE IF days.k = "number" /\ days.v > 365 THEN 60
    ELSE IF days.k = "number" /\ days.v > 90 THEN 20
    ELSE -30

scoreAge(days) ==
    IF days.k = "null" THEN -50
    ELSE IF days.k = "number" /\ days.v > 730 THEN 100
    ELSE IF days.k = "number" /\ days.v > 365 THEN 60
    ELSE IF days.k = "number" /\ days.v > 90 THEN 20
    ELSE -30

\* Mutant: the two upper tiers exchanged
scoreTransactionsTiersSwapped(txCount) ==
    IF txCount > 2000 THEN 60
    ELSE IF txCount > 300 THEN 100
    ELSE IF txCount > 50 THEN 20
    ELSE -20

scoreTransactions(txCount) ==
    IF txCount > 2000 THEN 100
    ELSE IF txCount > 300 THEN 60
    ELSE IF txCount > 50 THEN 20
    ELSE -20

scoreBalance(seiBalance) ==
    IF GreaterThan(seiBalance, 5000) THEN 100
    ELSE IF GreaterThan(seiBalance, 500) THEN 60
    ELSE IF GreaterThan(seiBalance, 50) THEN 20
    ELSE -30

\* Mutant: the method compared without toLowerCase
CountMethodCaseSensitive(txs, key) ==
    Cardinality({i \in 1..Len(txs) :
        txs[i].method.k = "string" /\ includes(txs[i].method.s, key)})

\* transactions.filter(tx => tx.method?.toLowerCase().includes(key)).length
CountMethod(txs, key) == Cardinality({i \in 1..Len(txs) : methodIncludes(txs[i], key)})

\* Mutant: the early return taken on the absence of repayments
repaymentByCountsNoRepay(b, r, l) ==
    IF r = 0 THEN Num(0)
    ELSE IF l = 0 /\ 5 * r >= 4 * b THEN Num(100)
    ELSE IF 10 * l < b /\ 5 * r >= 3 * b THEN Num(60)
    ELSE IF 4 * l < b THEN Num(0)
    ELSE IF -150 * l < -150 * b THEN Num(-150)
    ELSE [n |-> -150 * l, d |-> b]

\* Lines 300-310 on the three counts; the ratios r/b and l/b are compared as fractions.
repaymentByCounts(b, r, l) ==
    IF b = 0 THEN Num(0)
    ELSE IF l = 0 /\ 5 * r >= 4 * b THEN Num(100)
    ELSE IF 10 * l < b /\ 5 * r >= 3 * b THEN Num(60)
    ELSE IF 4 * l < b THEN Num(0)
    ELSE IF -150 * l < -150 * b THEN Num(-150)
    ELSE [n |-> -150 * l, d |-> b]

scoreRepayment(txs) ==
    repaymentByCounts(CountMethod(txs, borrow), CountMethod(txs, repay),
                      CountMethod(txs, liquidat))

scoreDeFiExtras(uniqueContracts) ==
    IF uniqueContracts > 25 THEN 30
    ELSE IF uniqueContracts > 10 THEN 10
    ELSE 0

\* Mutant: the sub-scores added to the base without their weights
rawScoreUnweighted(ageScore, txScore, balanceScore, repaymentScore, defiScore) ==
    [n |-> (BASE_SCORE + ageScore + txScore + balanceScore + defiScore) * repaymentScore.d
           + repaymentScore.n,
     d |-> repaymentScore.d]

\* Lines 348-353
rawScore(ageScore, txScore, balanceScore, repaymentScore, defiScore) ==
    [n |-> (BASE_SCORE * WeightUnit
            + ageScore * WEIGHTS.age
            + txScore * WEIGHTS.transactions
            + balanceScore * WEIGHTS.balance
            + defiScore * WEIGHTS.defi) * repaymentScore.d
           + WEIGHTS.repayment * repaymentScore.n,
     d |-> WeightUnit * repaymentScore.d]

\* Mutant: the clamp without Math.round
finalScoreNotRounded(raw) == MathMaxMin(0, 1000, raw)

\* Line 355
finalScore(raw) == MathMaxMin(0, 1000, MathRound(raw))

\* Mutant: the first comparison strict
gradeAndRiskStrict(score) ==
    IF score.n > 850 * score.d THEN [grade |-> "A+", riskLevel |-> "low"]
    ELSE IF GreaterEq(score, 800) THEN [grade |-> "A", riskLevel |-> "low"]
    ELSE IF GreaterEq(score, 750) THEN [grade |-> "A-", riskLevel |-> "low"]
    ELSE IF GreaterEq(score, 700) THEN [grade |-> "B+", riskLevel |-> "medium"]
    ELSE IF GreaterEq(score, 650) THEN [grade |-> "B", riskLevel |-> "medium"]
    ELSE IF GreaterEq(score, 500) THEN [grade |-> "C", riskLevel |-> "medium"]
    ELSE IF GreaterEq(score, 300) THEN [grade |-> "D", riskLevel |-> "high"]
    ELSE [grade |-> "F", riskLevel |-> "high"]

\* Lines 361-368: one chain decides grade and risk level
gradeAndRisk(score) ==
    IF GreaterEq(score, 850) THEN [grade |-> "A+", riskLevel |-> "low"]
    ELSE IF GreaterEq(score, 800) THEN [grade |-> "A", riskLevel |-> "low"]
    ELSE IF GreaterEq(score, 750) THEN [grade |-> "A-", riskLevel |-> "low"]
    ELSE IF GreaterEq(score, 700) THEN [grade |-> "B+", riskLevel |-> "medium"]
    ELSE IF GreaterEq(score, 650) THEN [grade |-> "B", riskLevel |-> "medium"]
    ELSE IF GreaterEq(score, 500) THEN [grade |-> "C", riskLevel |-> "medium"]
    ELSE IF GreaterEq(score, 300) THEN [grade |-> "D", riskLevel |-> "high"]
    ELSE [grade |-> "F", riskLevel |-> "high"]

\* Lines 371-374 and 384
accuracyOf(daysOld, txCount, bal) ==
    Min(99, 75 + (IF daysOld.k # "null" THEN 10 ELSE 0)
               + (IF txCount > 0 THEN 10 ELSE 0)
               + (IF GreaterThan(bal, 0) THEN 5 ELSE 0))

\* Lines 334-336: the clock and the timestamp are counted in hours before the call
\* of Date.now(); an Invalid Date has the time NaN.
HOURS_PER_DAY == 24

NullDate == [k |-> "null", ago |-> 0]
InvalidDate == [k |-> "invalid", ago |-> 0]
DateAgo(hours) == [k |-> "date", ago |-> hours]

daysOldOf(timestamp) ==
    IF timestamp.k = "null" THEN NullDays
    ELSE IF timestamp.k = "invalid" THEN NaNDays
    ELSE Days(timestamp.ago \div HOURS_PER_DAY)

\* Lines 376-378: parseInt(delegation.balance.amount) / 1000000, summed
USEI_PER_SEI == 1000000

RECURSIVE SumAmounts(_)
SumAmounts(delegations) ==
    IF delegations = <<>> THEN 0
    ELSE parseInt(delegations[1].amount) + SumAmounts(Tail(delegations))

totalStakedOf(staking) == [n |-> SumAmounts(staking.items), d |-> USEI_PER_SEI]

\* Mutant: the count of the list without the filter
defiTransactionCountUnfiltered(txs) == Len(txs)

\* Lines 399-403
defiTransactionCountOf(txs) ==
    Cardinality({i \in 1..Len(txs) :
        \/ methodIncludes(txs[i], swap)
        \/ methodIncludes(txs[i], lend)
        \/ methodIncludes(txs[i], borrow)})

\* What makes lines 333-406 throw: scoreRepayment on a null entry or on a method
\* that is no string; stakingInfo.reduce on a value that is no array, or on a
\* delegation without a balance.
aggregationThrows(staking, txs) ==
    \/ \E i \in 1..Len(txs) : methodThrows(txs[i])
    \/ ~staking.isArray
    \/ \E i \in 1..Len(staking.items) : ~staking.items[i].hasBalance

\* Lines 333-406: the report, from the five fetched values
reportOf(address, first, cnt, bal, staking, txs) ==
    LET daysOld == daysOldOf(first.timestamp)
        ageScore == scoreAge(daysOld)
        txScore == scoreTransactions(cnt.transaction_count)
        balanceScore == scoreBalance(bal)
        repaymentScore == scoreRepayment(txs)
        defiScore == scoreDeFiExtras(cnt.unique_addresses)
        score == finalScore(rawScore(ageScore, txScore, balanceScore, repaymentScore, defiScore))
    IN  [made |-> TRUE,
         score |-> score,
         accuracy |-> accuracyOf(daysOld, cnt.transaction_count, bal),
         grade |-> gradeAndRisk(score).grade,
         riskLevel |-> gradeAndRisk(score).riskLevel,
         factors |-> [transactionHistory |-> MathRound(Num(txScore)),
                      liquidityProvision |-> MathRound(Num(balanceScore)),
                      defiInteractions |-> MathRound(repaymentScore),
                      networkParticipation |-> MathRound(Num(ageScore + defiScore))],
         walletAddress |-> address,
         rawData |-> [transactionCount |-> cnt.transaction_count,
                      totalBalance |-> bal,
                      totalStaked |-> totalStakedOf(staking),
                      accountAgeDays |-> daysOld,
                      defiTransactionCount |-> defiTransactionCountOf(txs),
                      uniqueContractsInteracted |-> cnt.unique_addresses]]

(***************************************************************************)
(* Promises of the async fetchers, and the outcome of a try block: the     *)
(* value it returned, or that it threw.                                    *)
(***************************************************************************)
Idle(default) == [st |-> "idle", val |-> default]
Pending(default) == [st |-> "pending", val |-> default]
Returned(v) == [threw |-> FALSE, val |-> v]
Threw(default) == [threw |-> TRUE, val |-> default]

\* The promise of an async function settles with what its body returned or threw
Settle(outcome) ==
    [st |-> IF outcome.threw THEN "rejected" ELSE "fulfilled", val |-> outcome.val]

\* try { body } catch { return default }
Catch(outcome, default) == IF outcome.threw THEN Returned(default) ELSE outcome

(***************************************************************************)
(* fetchFirstTransactionInfo                                               *)
(***************************************************************************)
NoFirstTx == [timestamp |-> NullDate, blockNumber |-> UndefinedNumber]

\* Age, in hours, of the first transaction a provider may report: an hour less
\* than 731 days
FirstTxAges == {731 * HOURS_PER_DAY - 1}

FirstTxItems ==
    {[isNull |-> TRUE, timestamp |-> InvalidDate, block_number |-> UndefinedNumber]}
    \cup {[isNull |-> FALSE, timestamp |-> t, block_number |-> Number(9)] :
            t \in {InvalidDate} \cup {DateAgo(a) : a \in FirstTxAges}}

FirstTxResponses ==
    {[kind |-> k, hasItems |-> FALSE, items |-> <<>>] : k \in FailureKinds \cup {"json"}}
    \cup {[kind |-> "json", hasItems |-> TRUE, items |-> l] : l \in SeqsUpTo(FirstTxItems, 1)}

\* Lines 74-89
firstTransactionInfoTry(resp) ==
    IF resp.kind \in {"neterr", "badjson", "nullbody"} THEN Threw(NoFirstTx)
    ELSE IF resp.kind = "status" THEN Returned(NoFirstTx)
    ELSE IF ~resp.hasItems \/ Len(resp.items) = 0 THEN Returned(NoFirstTx)
    ELSE IF resp.items[1].isNull THEN Threw(NoFirstTx)
    ELSE Returned([timestamp |-> resp.items[1].timestamp,
                   blockNumber |-> resp.items[1].block_number])

fetchFirstTransactionInfo(resp) == Catch(firstTransactionInfoTry(resp), NoFirstTx)

(***************************************************************************)
(* fetchWalletCounters.  Of unique_addresses only the length is read.      *)
(***************************************************************************)
NoCounters == [transaction_count |-> 0, unique_addresses |-> 0]

CountersResponses ==
    {[kind |-> k, transaction_count |-> 0, unique_addresses |-> 0] : k \in FailureKinds}
    \cup {[kind |-> "json", transaction_count |-> 0, unique_addresses |-> 0],
          [kind |-> "json", transaction_count |-> 2500, unique_addresses |-> 30]}

\* Lines 99-108: an absent field reads as 0 or []
walletCountersTry(resp) ==
    IF resp.kind # "json" THEN Threw(NoCounters)
    ELSE Returned([transaction_count |-> resp.transaction_count,
                   unique_addresses |-> resp.unique_addresses])

fetchWalletCounters(resp) == Catch(walletCountersTry(resp), NoCounters)

(***************************************************************************)
(* fetchEvmBalance and fetchWalletBalance                                  *)
(***************************************************************************)
Zero == Decimal(0, <<>>)

\* digits / 10^e for a number written in decimal
DivPow10(digits, e) ==
    LET padded == Rep(0, e - Len(digits)) \o digits
        cut == Len(padded) - e
    IN  Decimal(IF cut = 0 THEN 0 ELSE parseInt(SubSeq(padded, 1, cut)),
                SubSeq(padded, cut + 1, Len(padded)))

\* parseInt(hex, 16)
RECURSIVE parseIntHex(_)
parseIntHex(hex) ==
    IF Len(hex) = 1 THEN hex[1]
    ELSE 16 * parseIntHex(SubSeq(hex, 1, Len(hex) - 1)) + hex[Len(hex)]

WEI_DIGITS == 18
USEI_DIGITS == 6

\* The results of eth_getBalance a provider may give: 0x0 and 0x1f
EvmResults == {<<0>>, <<1, 15>>}

EvmResponses ==
    {[kind |-> k, hasError |-> FALSE, hasResult |-> FALSE, result |-> <<0>>] : k \in FailureKinds}
    \cup {[kind |-> "json", hasError |-> TRUE, hasResult |-> FALSE, result |-> <<0>>],
          [kind |-> "json", hasError |-> FALSE, hasResult |-> FALSE, result |-> <<0>>]}
    \cup {[kind |-> "json", hasError |-> FALSE, hasResult |-> TRUE, result |-> r] : r \in EvmResults}

\* Lines 141-158
evmBalanceTry(resp) ==
    IF resp.kind # "json" THEN Threw(Zero)
    ELSE IF resp.hasError THEN Threw(Zero)
    ELSE IF ~resp.hasResult THEN Returned(NaN)
    ELSE Returned(DivPow10(NumberToString(parseIntHex(resp.result)), WEI_DIGITS))

fetchEvmBalance(resp) == Catch(evmBalanceTry(resp), Zero)

\* The amount a provider may report for a denomination: 50000001
Amounts == {<<5, 0, 0, 0, 0, 0, 0, 1>>}
Coins == {[denom |-> d, amount |-> a] : d \in {"usei", "uatom"}, a \in Amounts}

NativeResponses ==
    {[kind |-> k, hasBalances |-> FALSE, balances |-> <<>>] : k \in FailureKinds \cup {"json"}}
    \cup {[kind |-> "json", hasBalances |-> TRUE, balances |-> l] : l \in SeqsUpTo(Coins, MaxRespLen)}

\* data.balances.find(b => b.denom === "usei")
FindUsei(balances) ==
    IF \E i \in 1..Len(balances) : balances[i].denom = "usei"
    THEN <<balances[CHOOSE i \in 1..Len(balances) :
                /\ balances[i].denom = "usei"
                /\ \A j \in 1..(i - 1) : balances[j].denom # "usei"]>>
    ELSE <<>>

\* Lines 125-131
nativeBalanceTry(resp) ==
    IF resp.kind # "json" \/ ~resp.hasBalances THEN Threw(Zero)
    ELSE IF FindUsei(resp.balances) = <<>> THEN Returned(Zero)
    ELSE Returned(DivPow10(FindUsei(resp.balances)[1].amount, USEI_DIGITS))

\* Lines 125-135: the native query of fetchWalletBalance, under its catch
fetchNativeBalance(resp) == Catch(nativeBalanceTry(resp), Zero)

\* Lines 119-122: whether fetchWalletBalance returns what fetchEvmBalance gave
evmBalanceReturned(evm) == ~evm.threw /\ GreaterThan(evm.val, 0)

(***************************************************************************)
(* fetchStakingInfo                                                        *)
(***************************************************************************)
MaxDelegations == 1

NoStaking == [isArray |-> TRUE, items |-> <<>>]
NotAList == [isArray |-> FALSE, items |-> <<>>]

Delegations == {[hasBalance |-> TRUE, amount |-> <<2, 0, 0, 0, 0, 0, 0>>],
                [hasBalance |-> FALSE, amount |-> <<0>>]}

\* delegation_responses is absent, a list, or a value that is no list
StakingResponses ==
    {[kind |-> k, delegation_responses |-> NoStaking] : k \in FailureKinds \cup {"json"}}
    \cup {[kind |-> "json", delegation_responses |-> NotAList]}
    \cup {[kind |-> "json", delegation_responses |-> [isArray |-> TRUE, items |-> l]] :
            l \in SeqsUpTo(Delegations, MaxDelegations)}

\* Lines 168-172
stakingInfoTry(resp) ==
    IF resp.kind # "json" THEN Threw(NoStaking)
    ELSE Returned(resp.delegation_responses)

\* Mutant: fetchStakingInfo without its catch
fetchStakingInfoNoCatch(resp) == stakingInfoTry(resp)

fetchStakingInfo(resp) == Catch(stakingInfoTry(resp), NoStaking)

(***************************************************************************)
(* fetchWalletTransactions, tier 1: the explorer's list for the address.   *)
(***************************************************************************)
ExplorerItem(hash, bn, method) == [hash |-> hash, block_number |-> bn, method |-> method]

\* "several": one hash at every block number, or without one
\* "one": a single item, with the method names the scorer tells apart
ExplorerItemsOf(p) ==
    IF p = "several"
    THEN {ExplorerItem(1, bn, UndefinedMethod) :
            bn \in {UndefinedNumber} \cup {Number(b) : b \in BlockNumbers}}
    ELSE {ExplorerItem(1, Number(10), StringMethod(repayBorrowMethod)),
          ExplorerItem(1, Number(10), NonStringMethod),
          ExplorerItem(1, UndefinedNumber, UndefinedMethod)}

ExplorerResponses ==
    {[kind |-> k, hasItems |-> FALSE, items |-> <<>>] : k \in FailureKinds \cup {"json"}}
    \cup {[kind |-> "json", hasItems |-> TRUE, items |-> l] :
            l \in SeqsUpTo(ExplorerItemsOf(provider), RespLenOf(provider))}

\* tx.block_number.toString() throws on an item without a block_number
mapThrows(items) == \E i \in 1..Len(items) : items[i].block_number.k # "number"

\* Lines 192-201
mapExplorer(items) ==
    [i \in 1..Len(items) |->
        Tx(items[i].hash, NumberToString(items[i].block_number.v), items[i].method)]

\* Mutant: tier 1 returns only on more than one item
tier1ReturnsOnSeveral(resp) ==
    /\ resp.kind = "json"
    /\ resp.hasItems
    /\ Len(resp.items) > 1
    /\ ~mapThrows(resp.items)

\* Lines 186-206: tier 1 returns the mapped items if the response is ok, parses,
\* holds at least one item and the mapping does not throw; in every other case
\* the function goes on to the fallback.
tier1Returns(resp) ==
    /\ resp.kind = "json"
    /\ resp.hasItems
    /\ Len(resp.items) > 0
    /\ ~mapThrows(resp.items)

\* Whether the tier-1 response was ok and carried at least one item, and whether
\* its items were mapped without a throw
NoTier1 == [items |-> FALSE, mapped |-> FALSE]
Tier1Of(resp) ==
    [items |-> resp.kind = "json" /\ resp.hasItems /\ Len(resp.items) > 0,
     mapped |-> ~mapThrows(resp.items)]

(***************************************************************************)
(* The addresses and limits of the calls.                                  *)
(***************************************************************************)
Addresses ==
    {Address("sei", l, c) : l \in {BECH32_MIN - 1, BECH32_MIN, BECH32_MAX, BECH32_MAX + 1},
                            c \in {{"digit", "a-f"}, {"digit", "g-z"}, {"digit", "A-F"},
                                   {"G-Z"}, {"digit", "symbol"}}}
    \cup {Address("0x", l, c) : l \in {EVM_LEN - 1, EVM_LEN, EVM_LEN + 1},
                               c \in {{"digit", "a-f"}, {"digit", "g-z"}, {"digit", "A-F"},
                                      {"G-Z"}, {"digit", "symbol"}}}
    \cup {Address("other", l, c) : l \in {EVM_LEN, EVM_LEN + 2}, c \in {{"digit", "a-f"}}}

\* fetchWalletTransactions(walletAddress, 500)
CALCULATE_LIMIT == 500

NoReport == [made |-> FALSE]

NoGrade == [grade |-> "", riskLevel |-> ""]
NoComparison == [made |-> FALSE]

\* The grade chain and generateComparisonData have not been run
NothingGraded == scoreToGrade = 0 /\ graded = NoGrade
NothingCompared == userScore = 0 /\ comparison = NoComparison
NoCounts == [borrow |-> 0, repay |-> 0, liquidat |-> 0, both |-> 0]
NothingScored == repayCounts = NoCounts /\ repayScore = <<>>

\* Lines 680-682 of the page: the initial values of useState
PageLoaded ==
    /\ creditData = NoReport
    /\ comparisonData = NoComparison
    /\ isLoading = FALSE
    /\ pending = 0
    /\ started = 0
    /\ failures = 0

(***************************************************************************)
(* Actions.                                                                *)
(***************************************************************************)
callVars == <<walletAddress, limit, provider>>
gradeVars == <<scoreToGrade, graded>>
comparisonVars == <<userScore, comparison>>
repaymentVars == <<repayCounts, repayScore>>
pageVars == <<creditData, comparisonData, isLoading, pending, started, failures>>
txVars == <<transactions, qi, allTransactions, tier1>>

\* Nothing answered yet
NoAnswers == [evm |-> <<>>, native |-> <<>>, txs |-> {}]

\* The hashes of a response to a fallback query that is a parsed body with a list
\* of transaction objects
WellFormed(resp) ==
    resp.kind = "json" /\ resp.hasTxs /\ \A i \in 1..Len(resp.txs) : ~resp.txs[i].isNull
HashesOf(resp) ==
    IF WellFormed(resp) THEN {resp.txs[i].txhash : i \in 1..Len(resp.txs)} ELSE {}

\* Network error, non-2xx status, body that is no JSON
TransportFailures == {"neterr", "status", "badjson"}
Failed(resp) == resp.kind \in TransportFailures

\* Mutant: the EVM query sent first whatever the address is
firstBalanceRequestEvm(address) == "evmBalance"

\* The first request of fetchWalletBalance
firstBalanceRequest(address) ==
    IF startsWith0x(address) THEN "evmBalance" ELSE "nativeBalance"

\* Lines 325-331: each of the five calls runs to its first await, which sends a request
initialRequests(address) ==
    {"firstTx", "counters", firstBalanceRequest(address), "staking", "explorerTxs"}

\* Lines 411-417 and 321-331: calculateCreditScore up to the await of Promise.all
CallCalculateCreditScore ==
    /\ ccs = "idle"
    /\ IF ~isValidSeiAddress(walletAddress)
       THEN /\ ccs' = "invalidAddress"
            /\ UNCHANGED <<issued, inflight, firstTxInfo, counters, balance,
                           stakingInfo, transactions>>
       ELSE /\ ccs' = "fetching"
            /\ issued' = issued \cup initialRequests(walletAddress)
            /\ inflight' = inflight \cup initialRequests(walletAddress)
            /\ firstTxInfo' = Pending(NoFirstTx)
            /\ counters' = Pending(NoCounters)
            /\ balance' = Pending(Zero)
            /\ stakingInfo' = Pending(NoStaking)
            /\ transactions' = Pending(<<>>)
    /\ UNCHANGED <<callVars, gradeVars, comparisonVars, repaymentVars, pageVars,
                   report, qi, allTransactions,
                   tier1, onlyFailures, answers>>

FirstTxResponse ==
    /\ "firstTx" \in inflight
    /\ \E resp \in FirstTxResponses :
          /\ firstTxInfo' = Settle(fetchFirstTransactionInfo(resp))
          /\ onlyFailures' = (onlyFailures /\ Failed(resp))
    /\ inflight' = inflight \ {"firstTx"}
    /\ UNCHANGED <<callVars, gradeVars, comparisonVars, repaymentVars, pageVars,
                   txVars, ccs, report, issued,
                   counters, balance, stakingInfo, answers>>

CountersResponse ==
    /\ "counters" \in inflight
    /\ \E resp \in CountersResponses :
          /\ counters' = Settle(fetchWalletCounters(resp))
          /\ onlyFailures' = (onlyFailures /\ Failed(resp))
    /\ inflight' = inflight \ {"counters"}
    /\ UNCHANGED <<callVars, gradeVars, comparisonVars, repaymentVars, pageVars,
                   txVars, ccs, report, issued,
                   firstTxInfo, balance, stakingInfo, answers>>

\* Lines 120-125: fetchWalletBalance resumes on the result of fetchEvmBalance
EvmBalanceResponse ==
    /\ "evmBalance" \in inflight
    /\ \E resp \in EvmResponses :
          LET evm == fetchEvmBalance(resp) IN
          /\ onlyFailures' = (onlyFailures /\ Failed(resp))
          /\ answers' = [answers EXCEPT !.evm = <<evmBalanceTry(resp)>>]
          /\ IF evmBalanceReturned(evm)
             THEN /\ balance' = Settle(Returned(evm.val))
                  /\ inflight' = inflight \ {"evmBalance"}
                  /\ issued' = issued
             ELSE IF evm.threw
             THEN /\ balance' = Settle(Returned(Zero))
                  /\ inflight' = inflight \ {"evmBalance"}
                  /\ issued' = issued
             ELSE /\ balance' = balance
                  /\ inflight' = (inflight \ {"evmBalance"}) \cup {"nativeBalance"}
                  /\ issued' = issued \cup {"nativeBalance"}
    /\ UNCHANGED <<callVars, gradeVars, comparisonVars, repaymentVars, pageVars,
                   txVars, ccs, report,
                   firstTxInfo, counters, stakingInfo>>

NativeBalanceResponse ==
    /\ "nativeBalance" \in inflight
    /\ \E resp \in NativeResponses :
          /\ balance' = Settle(fetchNativeBalance(resp))
          /\ onlyFailures' = (onlyFailures /\ Failed(resp))
          /\ answers' = [answers EXCEPT !.native = <<nativeBalanceTry(resp)>>]
    /\ inflight' = inflight \ {"nativeBalance"}
    /\ UNCHANGED <<callVars, gradeVars, comparisonVars, repaymentVars, pageVars,
                   txVars, ccs, report, issued,
                   firstTxInfo, counters, stakingInfo>>

StakingResponse ==
    /\ "staking" \in inflight
    /\ \E resp \in StakingResponses :
          /\ stakingInfo' = Settle(fetchStakingInfo(resp))
          /\ onlyFailures' = (onlyFailures /\ Failed(resp))
    /\ inflight' = inflight \ {"staking"}
    /\ UNCHANGED <<callVars, gradeVars, comparisonVars, repaymentVars, pageVars,
                   txVars, ccs, report, issued,
                   firstTxInfo, counters, balance, answers>>

\* Lines 186-217: the tier-1 response; without a return the function sends the
\* first fallback query
ExplorerTxResponse ==
    /\ "explorerTxs" \in inflight
    /\ \E resp \in ExplorerResponses :
          /\ tier1' = Tier1Of(resp)
          /\ onlyFailures' = (onlyFailures /\ Failed(resp))
          /\ IF tier1Returns(resp)
             THEN /\ transactions' = Settle(Returned(mapExplorer(resp.items)))
                  /\ inflight' = inflight \ {"explorerTxs"}
                  /\ UNCHANGED <<issued, qi, allTransactions>>
             ELSE /\ transactions' = transactions
                  /\ qi' = 1
                  /\ allTransactions' = <<>>
                  /\ issued' = issued \cup QueriesSentAfter(0)
                  /\ inflight' = (inflight \ {"explorerTxs"}) \cup QueriesSentAfter(0)
    /\ UNCHANGED <<callVars, gradeVars, comparisonVars, repaymentVars, pageVars,
                   ccs, report, firstTxInfo,
                   counters, balance, stakingInfo, answers>>

\* Lines 219-246: the response to the query the loop awaits; after the last one
\* the function sorts, slices and returns
RestTxResponse ==
    /\ transactions.st = "pending"
    /\ qi \in 1..Len(queries)
    /\ queries[qi] \in inflight
    /\ \E resp \in RestResponses :
          LET acc == MergeResponse(allTransactions, resp) IN
          /\ allTransactions' = acc
          /\ onlyFailures' = (onlyFailures /\ Failed(resp))
          /\ answers' = [answers EXCEPT !.txs = @ \cup HashesOf(resp)]
          /\ issued' = issued \cup QueriesSentAfter(qi)
          /\ inflight' = (inflight \ {queries[qi]}) \cup QueriesSentAfter(qi)
          /\ IF qi < Len(queries)
             THEN /\ qi' = qi + 1
                  /\ transactions' = transactions
             ELSE /\ qi' = qi
                  /\ transactions' = Settle(Returned(Tier2Result(acc, limit)))
    /\ UNCHANGED <<callVars, gradeVars, comparisonVars, repaymentVars, pageVars,
                   tier1, ccs, report,
                   firstTxInfo, counters, balance, stakingInfo>>

promises == <<firstTxInfo, counters, balance, stakingInfo, transactions>>

\* Mutant: Promise.race in the place of Promise.all
anySettled == \E i \in 1..Len(promises) : promises[i].st \in {"fulfilled", "rejected"}

\* Promise.all rejects with the first rejection and fulfils once all five have
allSettled ==
    \/ \E i \in 1..Len(promises) : promises[i].st = "rejected"
    \/ \A i \in 1..Len(promises) : promises[i].st = "fulfilled"

\* Mutant: a catch block that throws the error it caught
surfacedRethrown(threw) == IF threw THEN "typeError" ELSE "returned"

\* Lines 416-421: how calculateCreditScore ends, by whether calculate threw
surfaced(threw) == IF threw THEN "scoringFailed" ELSE "returned"

\* Lines 325-406 and 416-421: calculate resumes from Promise.all, computes the
\* report and returns it; whatever it throws, calculateCreditScore throws the
\* generic error instead.
Aggregate ==
    /\ ccs = "fetching"
    /\ allSettled
    /\ LET threw == \/ \E i \in 1..Len(promises) : promises[i].st = "rejected"
                     \/ aggregationThrows(stakingInfo.val, transactions.val)
       IN  /\ ccs' = surfaced(threw)
           /\ report' = IF threw THEN report
                         ELSE reportOf(walletAddress, firstTxInfo.val, counters.val,
                                       balance.val, stakingInfo.val, transactions.val)
    /\ UNCHANGED <<callVars, gradeVars, comparisonVars, repaymentVars, pageVars,
                   txVars, issued, inflight,
                   onlyFailures, answers, firstTxInfo, counters, balance, stakingInfo>>

(***************************************************************************)
(* Spec: calculateCreditScore on an address, the providers answering in    *)
(* any order.                                                              *)
(***************************************************************************)
Init ==
    /\ walletAddress \in Addresses
    /\ limit = CALCULATE_LIMIT
    /\ provider = "one"
    /\ ccs = "idle"
    /\ report = NoReport
    /\ issued = {}
    /\ inflight = {}
    /\ firstTxInfo = Idle(NoFirstTx)
    /\ counters = Idle(NoCounters)
    /\ balance = Idle(Zero)
    /\ stakingInfo = Idle(NoStaking)
    /\ transactions = Idle(<<>>)
    /\ qi = 0
    /\ allTransactions = <<>>
    /\ tier1 = NoTier1
    /\ onlyFailures = TRUE
    /\ answers = NoAnswers
    /\ NothingGraded
    /\ NothingCompared
    /\ NothingScored
    /\ PageLoaded

Next ==
    \/ CallCalculateCreditScore
    \/ FirstTxResponse
    \/ CountersResponse
    \/ EvmBalanceResponse
    \/ NativeBalanceResponse
    \/ StakingResponse
    \/ ExplorerTxResponse
    \/ RestTxResponse
    \/ Aggregate

Spec == Init /\ [][Next]_vars

(***************************************************************************)
(* SpecFetch: one call of one of the five fetchers, from its first await   *)
(* on; fetchWalletTransactions is called with a limit of its caller's.     *)
(***************************************************************************)
Fetchers == {"firstTx", "counters", "balance", "staking", "transactions"}

StartOf(f, default) == IF f THEN Pending(default) ELSE Idle(default)

firstRequest(fetcher, address) ==
    CASE fetcher = "firstTx" -> "firstTx"
      [] fetcher = "counters" -> "counters"
      [] fetcher = "balance" -> firstBalanceRequest(address)
      [] fetcher = "staking" -> "staking"
      [] fetcher = "transactions" -> "explorerTxs"

InitFetch ==
    /\ walletAddress \in {Address("sei", BECH32_MIN, {"digit", "g-z"}),
                          Address("0x", EVM_LEN, {"digit", "A-F"})}
    /\ limit \in 1..MaxLimit
    /\ provider = "several"
    /\ ccs = "idle"
    /\ report = NoReport
    /\ \E fetcher \in Fetchers :
          /\ issued = {firstRequest(fetcher, walletAddress)}
          /\ inflight = {firstRequest(fetcher, walletAddress)}
          /\ firstTxInfo = StartOf(fetcher = "firstTx", NoFirstTx)
          /\ counters = StartOf(fetcher = "counters", NoCounters)
          /\ balance = StartOf(fetcher = "balance", Zero)
          /\ stakingInfo = StartOf(fetcher = "staking", NoStaking)
          /\ transactions = StartOf(fetcher = "transactions", <<>>)
    /\ qi = 0
    /\ allTransactions = <<>>
    /\ tier1 = NoTier1
    /\ onlyFailures = TRUE
    /\ answers = NoAnswers
    /\ NothingGraded
    /\ NothingCompared
    /\ NothingScored
    /\ PageLoaded

NextFetch ==
    \/ FirstTxResponse
    \/ CountersResponse
    \/ EvmBalanceResponse
    \/ NativeBalanceResponse
    \/ StakingResponse
    \/ ExplorerTxResponse
    \/ RestTxResponse

SpecFetch == InitFetch /\ [][NextFetch]_vars

(***************************************************************************)
(* SpecScore: the aggregation of calculate on fetched facts.  The state is *)
(* the one in which the five promises have fulfilled with the facts and    *)
(* Promise.all is about to resume calculate.                               *)
(***************************************************************************)
\* Hours that make the ages 90, 91, 365, 366, 730 and 731 days
ScoreAges ==
    {91 * HOURS_PER_DAY - 1, 91 * HOURS_PER_DAY, 366 * HOURS_PER_DAY - 1,
     366 * HOURS_PER_DAY, 731 * HOURS_PER_DAY - 1, 731 * HOURS_PER_DAY}
ScoreTimestamps == {NullDate} \cup {DateAgo(a) : a \in ScoreAges}
ScoreTxCounts == {0, 50, 51, 300, 301, 2000, 2001}
ScoreUniqueCounts == {0, 10, 11, 25, 26}
Millionth == <<0, 0, 0, 0, 0, 1>>
ScoreBalances ==
    {Zero, Decimal(50, <<>>), Decimal(50, Millionth), Decimal(500, <<>>),
     Decimal(500, Millionth), Decimal(5000, <<>>), Decimal(5000, Millionth)}

\* Numbers of borrow, repay and liquidation transactions: each branch of
\* scoreRepayment, on both sides of each ratio it compares
RepaymentMixes ==
    {<<0, 0, 0>>, <<0, 2, 1>>, <<0, 3, 0>>, <<0, 0, 2>>, <<5, 4, 0>>, <<5, 3, 0>>,
     <<5, 2, 0>>, <<11, 7, 1>>, <<10, 10, 1>>, <<5, 5, 1>>, <<4, 4, 1>>, <<3, 3, 1>>,
     <<2, 0, 1>>, <<1, 0, 1>>, <<1, 0, 2>>}

MethodTx(name) == Tx(1, <<1, 0>>, StringMethod(name))

TxList(mix) ==
    Rep(MethodTx(BorrowMethod), mix[1]) \o Rep(MethodTx(repay), mix[2])
        \o Rep(MethodTx(liquidateMethod), mix[3])

OneDelegation == [isArray |-> TRUE, items |-> <<[hasBalance |-> TRUE, amount |-> <<2, 0, 0, 0, 0, 0, 0>>]>>]

\* Scenario B: 800 days, 2500 transactions, 6000 SEI, 30 unique addresses,
\* 20 borrow and 20 repay transactions
ScenarioBFirstTx == [timestamp |-> DateAgo(800 * HOURS_PER_DAY), blockNumber |-> Number(9)]
ScenarioBCounters == [transaction_count |-> 2500, unique_addresses |-> 30]
ScenarioBBalance == Decimal(6000, <<>>)
ScenarioBTransactions == TxList(<<20, 20, 0>>)

Fulfilled(v) == Settle(Returned(v))

InitScore ==
    /\ walletAddress = Address("sei", BECH32_MIN, {"digit", "g-z"})
    /\ limit = CALCULATE_LIMIT
    /\ provider = "one"
    /\ ccs = "fetching"
    /\ report = NoReport
    /\ inflight = {}
    /\ \/ /\ firstTxInfo \in {Fulfilled([timestamp |-> t, blockNumber |-> Number(9)]) :
                                t \in ScoreTimestamps}
          /\ counters \in {Fulfilled([transaction_count |-> c, unique_addresses |-> u]) :
                                c \in ScoreTxCounts, u \in ScoreUniqueCounts}
          /\ balance \in {Fulfilled(b) : b \in ScoreBalances}
          /\ stakingInfo \in {Fulfilled(NoStaking), Fulfilled(OneDelegation)}
          /\ transactions \in {Fulfilled(TxList(m)) : m \in RepaymentMixes}
       \/ /\ firstTxInfo = Fulfilled(ScenarioBFirstTx)
          /\ counters = Fulfilled(ScenarioBCounters)
          /\ balance = Fulfilled(ScenarioBBalance)
          /\ stakingInfo = Fulfilled(NoStaking)
          /\ transactions = Fulfilled(ScenarioBTransactions)
    \* an empty list is what the fallback returned, a list with entries the explorer
    /\ IF transactions.val = <<>>
       THEN /\ issued = initialRequests(walletAddress) \cup {queries[i] : i \in 1..Len(queries)}
            /\ qi = Len(queries)
            /\ tier1 = NoTier1
       ELSE /\ issued = initialRequests(walletAddress)
            /\ qi = 0
            /\ tier1 = [items |-> TRUE, mapped |-> TRUE]
    /\ allTransactions = <<>>
    /\ onlyFailures = FALSE
    /\ answers = NoAnswers
    /\ NothingGraded
    /\ NothingCompared
    /\ NothingScored
    /\ PageLoaded

NextScore == Aggregate

SpecScore == InitScore /\ [][NextScore]_vars

(***************************************************************************)
(* SpecGrade: the chain of lines 361-368 on every final score the clamp of *)
(* line 355 lets through.  calculateCreditScore has not been called.       *)
(***************************************************************************)
pipelineVars ==
    <<walletAddress, limit, ccs, report, issued, inflight, firstTxInfo, counters,
      balance, stakingInfo, transactions, qi, allTransactions, tier1, onlyFailures,
      answers, provider>>

Uncalled ==
    /\ walletAddress = Address("sei", BECH32_MIN, {"digit", "g-z"})
    /\ limit = CALCULATE_LIMIT
    /\ provider = "one"
    /\ ccs = "idle"
    /\ report = NoReport
    /\ issued = {}
    /\ inflight = {}
    /\ firstTxInfo = Idle(NoFirstTx)
    /\ counters = Idle(NoCounters)
    /\ balance = Idle(Zero)
    /\ stakingInfo = Idle(NoStaking)
    /\ transactions = Idle(<<>>)
    /\ qi = 0
    /\ allTransactions = <<>>
    /\ tier1 = NoTier1
    /\ onlyFailures = TRUE
    /\ answers = NoAnswers

MIN_SCORE == 0
MAX_SCORE == 1000

InitGrade ==
    /\ Uncalled
    /\ scoreToGrade \in MIN_SCORE..MAX_SCORE
    /\ graded = NoGrade
    /\ NothingCompared
    /\ NothingScored
    /\ PageLoaded

Grade ==
    /\ graded = NoGrade
    /\ graded' = gradeAndRisk(Num(scoreToGrade))
    /\ UNCHANGED <<pipelineVars, scoreToGrade, comparisonVars, repaymentVars, pageVars>>

NextGrade == Grade

SpecGrade == InitGrade /\ [][NextGrade]_vars

(***************************************************************************)
(* SpecCompare: generateComparisonData on a score.  A value of             *)
(* Math.random() is a multiple of 1/RandomUnits in [0, 1), given by its    *)
(* numerator; the three calls of one run draw independently.  The field    *)
(* scoreDistribution, whose counts are products with decimal fractions, is *)
(* left out of the result.                                                 *)
(***************************************************************************)
Randoms == {0, 1, RandomUnits \div 2, RandomUnits - 1}

\* Mutant: Math.round in the place of Math.floor
RandomBelowRounded(r, n) == (2 * r * n + RandomUnits) \div (2 * RandomUnits)

\* Math.floor(Math.random() * n)
RandomBelow(r, n) == (r * n) \div RandomUnits

\* Lines 430-435
percentileOf(score, r) ==
    IF score >= 850 THEN 95 + RandomBelow(r, 5)
    ELSE IF score >= 800 THEN 85 + RandomBelow(r, 10)
    ELSE IF score >= 750 THEN 70 + RandomBelow(r, 15)
    ELSE IF score >= 700 THEN 50 + RandomBelow(r, 20)
    ELSE IF score >= 650 THEN 25 + RandomBelow(r, 25)
    ELSE RandomBelow(r, 25)

\* Lines 425-453, on the values r1, r2, r3 of the three calls of Math.random()
generateComparisonData(score, r1, r2, r3) ==
    LET totalUsers == 45000 + RandomBelow(r1, 5000)
        averageScore == 520 + RandomBelow(r2, 40)
        percentile == percentileOf(score, r3)
        rank == (totalUsers * (100 - percentile)) \div 100
    IN  [made |-> TRUE,
         userScore |-> score,
         percentile |-> percentile,
         averageScore |-> averageScore,
         totalUsers |-> totalUsers,
         rank |-> rank]

\* The scores on both sides of each band, and the ends of the range
CompareScores == {MIN_SCORE, 649, 650, 699, 700, 749, 750, 799, 800, 849, 850, MAX_SCORE}

InitCompare ==
    /\ Uncalled
    /\ NothingGraded
    /\ userScore \in CompareScores
    /\ comparison = NoComparison
    /\ NothingScored
    /\ PageLoaded

GenerateComparisonData ==
    /\ comparison = NoComparison
    /\ \E r1, r2, r3 \in Randoms :
          comparison' = generateComparisonData(userScore, r1, r2, r3)
    /\ UNCHANGED <<pipelineVars, gradeVars, userScore, repaymentVars, pageVars>>

NextCompare == GenerateComparisonData

SpecCompare == InitCompare /\ [][NextCompare]_vars

(***************************************************************************)
(* SpecRepay: scoreRepayment on lists of transactions.  A list holds given *)
(* numbers of "Borrow", "repay", "liquidate" and "repayBorrow"             *)
(* transactions (the last counts as a borrow and as a repayment); each     *)
(* call is made on the list with some number of liquidations.              *)
(***************************************************************************)
MaxCount == 12

RepayList(c) ==
    TxList(<<c.borrow, c.repay, c.liquidat>>) \o Rep(MethodTx(repayBorrowMethod), c.both)

InitRepay ==
    /\ Uncalled
    /\ NothingGraded
    /\ NothingCompared
    /\ repayCounts \in [borrow : 0..MaxCount, repay : 0..MaxCount, liquidat : {0}, both : 0..1]
    /\ repayScore = <<>>
    /\ PageLoaded

ScoreRepayment ==
    /\ \E l \in 0..MaxCount :
          /\ repayCounts' = [repayCounts EXCEPT !.liquidat = l]
          /\ repayScore' = <<scoreRepayment(RepayList(repayCounts'))>>
    /\ UNCHANGED <<pipelineVars, gradeVars, comparisonVars, pageVars>>

NextRepay == ScoreRepayment

SpecRepay == InitRepay /\ [][NextRepay]_vars

(***************************************************************************)
(* SpecPage: the page Index.  A run of handleWalletSubmit sets the three   *)
(* states and suspends at its await of calculateCreditScore; it resumes    *)
(* when that promise fulfils with a report or rejects, and runs to the end *)
(* of its finally block.  The state updates of one run are committed       *)
(* together.  The form WalletInput is rendered while creditData is null,   *)
(* whether or not a run is suspended, and the button "Check Another        *)
(* Wallet" while it is not null.                                           *)
(***************************************************************************)
MaxSubmissions == 3

\* The reports calculateCreditScore fulfils with: the one of a wallet about which
\* nothing is known and the one of scenario B
PageReports ==
    {reportOf(Address("sei", BECH32_MIN, {"digit", "g-z"}), NoFirstTx, NoCounters, Zero,
              NoStaking, <<>>),
     reportOf(Address("sei", BECH32_MIN, {"digit", "g-z"}), ScenarioBFirstTx,
              ScenarioBCounters, ScenarioBBalance, NoStaking, ScenarioBTransactions)}

\* Mutant: no finally block
finallyIsLoadingKept(loading) == loading

\* Lines 709-711: finally { setIsLoading(false) }
finallyIsLoading(loading) == FALSE

InitPage ==
    /\ Uncalled
    /\ NothingGraded
    /\ NothingCompared
    /\ NothingScored
    /\ PageLoaded

\* Lines 685-692, up to the await
HandleWalletSubmit ==
    /\ ~creditData.made
    /\ started < MaxSubmissions
    /\ isLoading' = TRUE
    /\ creditData' = NoReport
    /\ comparisonData' = NoComparison
    /\ pending' = pending + 1
    /\ started' = started + 1
    /\ UNCHANGED <<pipelineVars, gradeVars, comparisonVars, repaymentVars, failures>>

\* Lines 692-701 and 709-711: the promise fulfilled
SubmissionFulfilled ==
    /\ pending > 0
    /\ \E data \in PageReports, r1, r2, r3 \in Randoms :
          /\ creditData' = data
          /\ comparisonData' = generateComparisonData(data.score.n, r1, r2, r3)
    /\ isLoading' = finallyIsLoading(isLoading)
    /\ pending' = pending - 1
    /\ UNCHANGED <<pipelineVars, gradeVars, comparisonVars, repaymentVars, started, failures>>

\* Lines 702-711: the promise rejected
SubmissionRejected ==
    /\ pending > 0
    /\ isLoading' = finallyIsLoading(isLoading)
    /\ pending' = pending - 1
    /\ failures' = failures + 1
    /\ UNCHANGED <<pipelineVars, gradeVars, comparisonVars, repaymentVars, creditData,
                   comparisonData, started>>

\* Lines 729-733: the click on "Check Another Wallet"
CheckAnotherWallet ==
    /\ creditData.made
    /\ creditData' = NoReport
    /\ comparisonData' = NoComparison
    /\ UNCHANGED <<pipelineVars, gradeVars, comparisonVars, repaymentVars, isLoading,
                   pending, started, failures>>

NextPage ==
    \/ HandleWalletSubmit
    \/ SubmissionFulfilled
    \/ SubmissionRejected
    \/ CheckAnotherWallet

SpecPage == InitPage /\ [][NextPage]_vars

(***************************************************************************)
(* Properties.                                                             *)
(***************************************************************************)
QuerySet == {queries[i] : i \in 1..Len(queries)}

\* The two address patterns as the specification words them
MatchesBech32Pattern(a) ==
    a.prefix = "sei" /\ a.len \in 39..59 /\ a.classes \subseteq {"digit", "a-f", "g-z"}
MatchesEvmPattern(a) ==
    a.prefix = "0x" /\ a.len = 40 /\ a.classes \subseteq {"digit", "a-f", "A-F"}

\* C1: for an address that matches neither pattern calculateCreditScore throws the
\* invalid-address error, and no request is sent to any provider, neither before
\* nor after the throw.
C1_InvalidAddressNoRequest ==
    (~MatchesBech32Pattern(walletAddress) /\ ~MatchesEvmPattern(walletAddress))
        => /\ ccs \in {"idle", "invalidAddress"}
           /\ issued = {}
           /\ inflight = {}

C1_Witness ==
    /\ ccs = "invalidAddress"
    /\ walletAddress.prefix = "sei"
    /\ walletAddress.len = 60
    /\ walletAddress.classes = {"digit", "g-z"}

\* C2 (as claimed): for a valid address calculateCreditScore never fails, whatever
\* the providers answer.
C2_ValidAddressNeverFails ==
    isValidSeiAddress(walletAddress) => ccs # "scoringFailed"

DefaultFacts ==
    /\ firstTxInfo.val.timestamp = NullDate
    /\ counters.val = NoCounters
    /\ balance.val = Zero
    /\ transactions.val = <<>>

\* C3 (as claimed): the all-default facts score 500, grade C, risk medium, accuracy 75.
C3_DefaultsScore500 ==
    (ccs = "returned" /\ DefaultFacts)
        => /\ report.score = Num(500)
           /\ report.grade = "C"
           /\ report.riskLevel = "medium"
           /\ report.accuracy = 75

\* C3 (amended): the all-default facts score 481, grade D, risk high, accuracy 75.
C3_DefaultsScore481 ==
    (ccs = "returned" /\ DefaultFacts)
        => /\ report.score = Num(481)
           /\ report.grade = "D"
           /\ report.riskLevel = "high"
           /\ report.accuracy = 75

C3_Witness == ccs = "returned" /\ DefaultFacts

\* C4: the final score of every report is an integer from 0 to 1000.
C4_FinalScoreInRange ==
    ccs = "returned"
        => /\ IsInteger(report.score)
           /\ report.score.n >= 0
           /\ report.score.n <= 1000 * report.score.d

\* the lowest sub-scores together, and a raw score that is no integer
C4_Witness ==
    /\ ccs = "returned"
    /\ firstTxInfo.val.timestamp = NullDate
    /\ report.factors.defiInteractions = Num(-150)
    /\ report.rawData.transactionCount = 0
    /\ balance.val = Zero

ScenarioBFacts ==
    /\ firstTxInfo.val = ScenarioBFirstTx
    /\ counters.val = ScenarioBCounters
    /\ balance.val = ScenarioBBalance
    /\ transactions.val = ScenarioBTransactions

\* C5 (as claimed): the Scenario B facts are graded A-, A or A+.
C5_ScenarioBGradeA ==
    (ccs = "returned" /\ ScenarioBFacts) => report.grade \in {"A-", "A", "A+"}

\* C5 (amended): the Scenario B facts score 593, which is graded C with risk medium.
C5_ScenarioBGradeC ==
    (ccs = "returned" /\ ScenarioBFacts)
        => /\ report.score = Num(593)
           /\ report.grade = "C"
           /\ report.riskLevel = "medium"

C5_Witness == ccs = "returned" /\ ScenarioBFacts

\* C6: no fetcher's promise ever rejects, and a fetcher all of whose requests met
\* a network error, a non-2xx status or an unparseable body fulfils with its
\* default: null/null, count 0 without addresses, balance 0, no delegations, no
\* transactions.
C6_FetchersAbsorbFailures ==
    /\ \A i \in 1..Len(promises) : promises[i].st # "rejected"
    /\ onlyFailures =>
          /\ firstTxInfo.st = "fulfilled" => firstTxInfo.val = NoFirstTx
          /\ counters.st = "fulfilled" => counters.val = NoCounters
          /\ balance.st = "fulfilled" => balance.val = Zero
          /\ stakingInfo.st = "fulfilled" => stakingInfo.val = NoStaking
          /\ transactions.st = "fulfilled" => transactions.val = <<>>

\* the explorer request and all five fallback queries failed
C6_Witness ==
    /\ onlyFailures
    /\ transactions.st = "fulfilled"
    /\ QuerySet \subseteq issued

\* C7 (as claimed): after an ok tier-1 response with at least one item no fallback
\* query is ever sent.
C7_Tier1ItemsNoFallback ==
    tier1.items => issued \cap QuerySet = {}

\* C7 (amended): after an ok tier-1 response with at least one item, all of whose
\* items were mapped without a throw, no fallback query is ever sent.
C7_Tier1MappedNoFallback ==
    (tier1.items /\ tier1.mapped)
        => /\ issued \cap QuerySet = {}
           /\ transactions.st = "fulfilled"
           /\ transactions.val # <<>>

C7_Witness == tier1.items /\ tier1.mapped /\ Len(transactions.val) = 1

FromTier2 == transactions.st = "fulfilled" /\ qi = Len(queries)

\* C8 (as claimed): the list the fallback returns holds no two entries with the
\* same transaction hash.
C8_NoDuplicateHashes ==
    FromTier2 =>
        \A i, j \in 1..Len(transactions.val) :
            (/\ i # j
             /\ ~transactions.val[i].isNull
             /\ ~transactions.val[j].isNull)
                => transactions.val[i].txhash # transactions.val[j].txhash

HeightOf(tx) == parseInt(tx.height)
NoNullEntry(txs) == \A i \in 1..Len(txs) : ~txs[i].isNull

\* The i-th entry of out is an entry of merged with the i-th highest height
HighestFirst(out, merged) ==
    /\ Len(out) = Min(Len(merged), limit)
    /\ \A i, j \in 1..Len(out) : i < j => HeightOf(out[i]) >= HeightOf(out[j])
    /\ \A i \in 1..Len(out) :
          /\ \E j \in 1..Len(merged) : merged[j] = out[i]
          /\ Cardinality({j \in 1..Len(merged) :
                            HeightOf(merged[j]) > HeightOf(out[i])}) < i
          /\ Cardinality({j \in 1..Len(merged) :
                            HeightOf(merged[j]) >= HeightOf(out[i])}) >= i

\* C9 (as claimed): the list the fallback returns is ordered by height descending
\* and holds the min(limit, size of the merged list) highest entries of the merged
\* list, whatever the entries are.
C9_HighestKept ==
    FromTier2 => HighestFirst(transactions.val, allTransactions)

\* C9 (amended): when every entry of the merged list is an object with a decimal
\* height, the list the fallback returns is ordered by height descending and
\* holds the min(limit, size of the merged list) highest entries of the merged list.
C9_SortedAndTruncated ==
    (FromTier2 /\ NoNullEntry(allTransactions))
        => HighestFirst(transactions.val, allTransactions)

\* the merged list is longer than the limit, and its first entry is not its highest
C9_Witness ==
    /\ FromTier2
    /\ NoNullEntry(allTransactions)
    /\ Len(allTransactions) > limit
    /\ HeightOf(allTransactions[1]) < HeightOf(allTransactions[2])

\* C10: the five fallback queries are all sent before any of their responses is
\* awaited: once one of them has been sent, all of them have.
C10_QueriesSentTogether ==
    issued \cap QuerySet # {} => QuerySet \subseteq issued

\* C11: the five fetchers are all started before any of them completes (while one
\* promise is no longer idle none is, and the first request of each has been sent),
\* and a report, with its sub-scores, exists only once all five promises have
\* fulfilled, in whatever order the responses arrive.
C11_FanOutAndJoin ==
    /\ (\E i \in 1..Len(promises) : promises[i].st # "idle")
          => /\ \A i \in 1..Len(promises) : promises[i].st # "idle"
             /\ {"firstTx", "counters", "staking", "explorerTxs"} \subseteq issued
             /\ issued \cap {"evmBalance", "nativeBalance"} # {}
    /\ ccs \in {"fetching", "returned", "scoringFailed"}
          => \A i \in 1..Len(promises) : promises[i].st # "idle"
    /\ report.made => \A i \in 1..Len(promises) : promises[i].st = "fulfilled"
    /\ ccs \in {"returned", "scoringFailed"} => inflight = {}

\* a report after the longest chains of requests: both balance queries and all
\* five fallback queries
C11_Witness ==
    /\ report.made
    /\ {"evmBalance", "nativeBalance"} \subseteq issued
    /\ QuerySet \subseteq issued

\* What the EVM query ended with: a failure (a rejected fetch, a non-2xx status, a
\* body that is no JSON or holds an error, or a body without a result), a zero
\* result or a positive one
EvmAnswered == answers.evm # <<>>
EvmFailed == EvmAnswered /\ (answers.evm[1].threw \/ answers.evm[1].val.nan)
EvmZero == EvmAnswered /\ ~answers.evm[1].threw /\ answers.evm[1].val = Zero
EvmPositive == EvmAnswered /\ ~answers.evm[1].threw /\ GreaterThan(answers.evm[1].val, 0)
NativeFailed == answers.native # <<>> /\ answers.native[1].threw

\* C12: for a 0x address fetchWalletBalance sends the EVM query first and the
\* native query only after the EVM query failed or gave zero (a positive EVM
\* result is returned without a native query); for a sei address the EVM query is
\* never sent; when both queries failed for a 0x address the balance is 0 and the
\* balance sub-score is -30.
C12_EvmFirstThenNative ==
    /\ startsWith0x(walletAddress) =>
          /\ balance.st # "idle" => "evmBalance" \in issued
          /\ "nativeBalance" \in issued
                => "evmBalance" \notin inflight /\ (EvmFailed \/ EvmZero)
          /\ EvmPositive
                => /\ "nativeBalance" \notin issued
                   /\ balance = Settle(Returned(answers.evm[1].val))
          /\ (EvmFailed /\ NativeFailed)
                => /\ balance = Settle(Returned(Zero))
                   /\ scoreBalance(balance.val) = -30
                   /\ report.made => /\ report.factors.liquidityProvision = Num(-30)
                                     /\ report.rawData.totalBalance = Zero
    /\ ~startsWith0x(walletAddress) =>
          /\ "evmBalance" \notin issued
          /\ ~EvmAnswered
          /\ balance.st # "idle" => "nativeBalance" \in issued

\* a report for a 0x address both of whose balance queries failed
C12_Witness ==
    /\ startsWith0x(walletAddress)
    /\ EvmAnswered
    /\ answers.evm[1].threw
    /\ NativeFailed
    /\ report.made

\* C13: when tier 1 gave no items or failed, all five fallback queries are sent
\* whatever the answers to the others are, and every transaction of a well-formed
\* response is in the merged list before it is truncated.
C13_QueriesIndependent ==
    FromTier2 =>
        /\ QuerySet \subseteq issued
        /\ \A h \in answers.txs :
              \E i \in 1..Len(allTransactions) :
                  ~allTransactions[i].isNull /\ allTransactions[i].txhash = h

\* C14: calculateCreditScore fails in two ways only: with the invalid-address
\* error, exactly for an address that fails validation, and with the generic
\* scoring error, exactly when the aggregation of calculate threw; the exception
\* calculate threw never reaches the caller, and no report is returned then.
C14_TwoErrorKinds ==
    /\ ccs \in {"idle", "fetching", "returned", "invalidAddress", "scoringFailed"}
    /\ ~isValidSeiAddress(walletAddress) => ccs \in {"idle", "invalidAddress"}
    /\ isValidSeiAddress(walletAddress) => ccs # "invalidAddress"
    /\ ccs = "scoringFailed"
          => /\ aggregationThrows(stakingInfo.val, transactions.val)
             /\ ~report.made
    /\ (ccs \notin {"idle", "fetching", "invalidAddress"}
            /\ aggregationThrows(stakingInfo.val, transactions.val))
          => ccs = "scoringFailed"

\* the reduce over a staking value that is no array threw inside calculate
C14_Witness ==
    /\ ccs = "scoringFailed"
    /\ ~stakingInfo.val.isArray

\* The score of the report calculate makes of the fetched facts with the
\* transaction count replaced by m
ScoreWithTxCount(m) ==
    reportOf(walletAddress, firstTxInfo.val,
             [counters.val EXCEPT !.transaction_count = m],
             balance.val, stakingInfo.val, transactions.val).score

\* C16: for counts m <= n the transaction sub-score of m is not above that of n,
\* and with the other facts as they are the final score for m is not above the
\* final score for n.
C16_TxScoreMonotone ==
    ccs = "returned" =>
        LET n == report.rawData.transactionCount IN
        \A m \in ScoreTxCounts :
            m <= n => /\ scoreTransactions(m) <= scoreTransactions(n)
                      /\ ScoreWithTxCount(m).n <= report.score.n

\* a count above the highest threshold, whose score is above that of a count below it
C16_Witness ==
    /\ ccs = "returned"
    /\ report.rawData.transactionCount = 2001
    /\ ScoreWithTxCount(2000).n < report.score.n

\* C17: when no transaction of the list has a method whose lower-cased name
\* contains "borrow", the repayment sub-score is 0, however many repay and
\* liquidation transactions the list holds.
C17_NoBorrowScoresZero ==
    (ccs = "returned" /\ CountMethod(transactions.val, borrow) = 0)
        => /\ scoreRepayment(transactions.val) = Num(0)
           /\ report.factors.defiInteractions = Num(0)

\* repay and liquidation transactions without a borrow
C17_Witness ==
    /\ ccs = "returned"
    /\ CountMethod(transactions.val, borrow) = 0
    /\ CountMethod(transactions.val, repay) = 2
    /\ CountMethod(transactions.val, liquidat) = 1

\* The grade and the risk level the specification gives a final score
GradeOf(n) ==
    CASE n >= 850 -> "A+"
      [] n >= 800 /\ n < 850 -> "A"
      [] n >= 750 /\ n < 800 -> "A-"
      [] n >= 700 /\ n < 750 -> "B+"
      [] n >= 650 /\ n < 700 -> "B"
      [] n >= 500 /\ n < 650 -> "C"
      [] n >= 300 /\ n < 500 -> "D"
      [] n < 300 -> "F"

RiskOf(grade) ==
    CASE grade \in {"A+", "A", "A-"} -> "low"
      [] grade \in {"B+", "B", "C"} -> "medium"
      [] grade \in {"D", "F"} -> "high"

\* C18: the grade is the one of the first threshold, from 850 down, that the final
\* score reaches (F below 300), and the risk level is low for A+, A, A-, medium
\* for B+, B, C and high for D, F.
C18_GradeAndRiskByScore ==
    graded # NoGrade =>
        /\ graded.grade = GradeOf(scoreToGrade)
        /\ graded.riskLevel = RiskOf(graded.grade)

\* a score on a threshold
C18_Witness == scoreToGrade = 850 /\ graded.grade = "A+" /\ graded.riskLevel = "low"

\* The three facts the accuracy counts, as a report shows them
AgeKnown == report.rawData.accountAgeDays.k = "number"
HasTransactions == report.rawData.transactionCount > 0
HasBalance == GreaterThan(report.rawData.totalBalance, 0)

\* C19: the accuracy of a report is min(99, 75 + 10 if the age of the first
\* transaction is known + 10 if the transaction count is above 0 + 5 if the
\* balance is above 0): one of 75, 80, 85, 90, 95, 99, and 99 only with all three.
C19_AccuracyFormula ==
    report.made =>
        /\ report.accuracy = Min(99, 75 + (IF AgeKnown THEN 10 ELSE 0)
                                        + (IF HasTransactions THEN 10 ELSE 0)
                                        + (IF HasBalance THEN 5 ELSE 0))
        /\ report.accuracy \in {75, 80, 85, 90, 95, 99}
        /\ report.accuracy = 99 => (AgeKnown /\ HasTransactions /\ HasBalance)

\* The band of percentiles the specification gives a score
PercentileBand(score) ==
    CASE score >= 850 -> 95..99
      [] score >= 800 /\ score < 850 -> 85..94
      [] score >= 750 /\ score < 800 -> 70..84
      [] score >= 700 /\ score < 750 -> 50..69
      [] score >= 650 /\ score < 700 -> 25..49
      [] score < 650 -> 0..24

\* C20: whatever the random draws, the percentile generateComparisonData returns
\* is in the band of the score, totalUsers is in 45000..49999, averageScore in
\* 520..559, rank is floor(totalUsers * (100 - percentile) / 100) and userScore
\* is the argument.
C20_ComparisonInBands ==
    comparison.made =>
        /\ comparison.percentile \in PercentileBand(userScore)
        /\ comparison.totalUsers \in 45000..49999
        /\ comparison.averageScore \in 520..559
        /\ 100 * comparison.rank <= comparison.totalUsers * (100 - comparison.percentile)
        /\ 100 * (comparison.rank + 1) > comparison.totalUsers * (100 - comparison.percentile)
        /\ comparison.userScore = userScore

\* the highest draws in the highest band
C20_Witness ==
    /\ comparison.made
    /\ userScore = 850
    /\ comparison.percentile = 99
    /\ comparison.totalUsers = 49999
    /\ comparison.averageScore = 559

\* The five sub-scores calculate computes of the fetched facts; the repayment
\* sub-score is a fraction n/d
SubScores ==
    [age |-> scoreAge(daysOldOf(firstTxInfo.val.timestamp)),
     tx |-> scoreTransactions(counters.val.transaction_count),
     balance |-> scoreBalance(balance.val),
     repayment |-> scoreRepayment(transactions.val),
     diversity |-> scoreDeFiExtras(counters.val.unique_addresses)]

\* 200 * d times the sum 500 + 0.15 age + 0.20 tx + 0.25 balance + 0.30 repayment
\* + 0.10 diversity, an integer
WeightedSum200(s) ==
    (100000 + 30 * s.age + 40 * s.tx + 50 * s.balance + 20 * s.diversity) * s.repayment.d
        + 60 * s.repayment.n

\* C21: the final score of a report is the integer k nearest to 500 + 0.15 age
\* + 0.20 tx + 0.25 balance + 0.30 repayment + 0.10 diversity (k - 1/2 <= sum <
\* k + 1/2), brought into 0..1000; the sub-scores 100, 100, 100, 100, 30 give 593.
C21_WeightedSumRounded ==
    ccs = "returned" =>
        LET s == SubScores
            unit == 200 * s.repayment.d
            k == CHOOSE k \in -1000..2000 :
                    /\ (2 * k - 1) * (unit \div 2) <= WeightedSum200(s)
                    /\ WeightedSum200(s) < (2 * k + 1) * (unit \div 2)
        IN  /\ report.score = Num(IF k < 0 THEN 0 ELSE IF k > 1000 THEN 1000 ELSE k)
            /\ (s.age = 100 /\ s.tx = 100 /\ s.balance = 100 /\ s.repayment = Num(100)
                    /\ s.diversity = 30) => report.score = Num(593)

\* a sum that lies on a half, 496.5, rounded up
C21_Witness ==
    /\ ccs = "returned"
    /\ SubScores = [age |-> -30, tx |-> -20, balance |-> 20, repayment |-> Num(0),
                    diversity |-> 0]
    /\ report.score = Num(497)

\* The numbers b, r, l of a list: transactions whose lower-cased method contains
\* "borrow", "repay", "liquidat"
BorrowCount == repayCounts.borrow + repayCounts.both
RepayCount == repayCounts.repay + repayCounts.both
LiquidationCount == repayCounts.liquidat

\* The value the specification gives b > 0, r, l, as a fraction
RepaymentOf(b, r, l) ==
    CASE l = 0 /\ 10 * r >= 8 * b -> Num(100)
      [] ~(l = 0 /\ 10 * r >= 8 * b) /\ 10 * l < b /\ 10 * r >= 6 * b -> Num(60)
      [] ~(l = 0 /\ 10 * r >= 8 * b) /\ ~(10 * l < b /\ 10 * r >= 6 * b) /\ 100 * l < 25 * b
            -> Num(0)
      [] 100 * l >= 25 * b /\ l <= b -> [n |-> -150 * l, d |-> b]
      [] 100 * l >= 25 * b /\ l > b -> Num(-150)

SameNumber(p, q) == p.n * q.d = q.n * p.d
NotAbove(p, q) == p.n * q.d <= q.n * p.d

RepaymentByRatios ==
    (repayScore # <<>> /\ BorrowCount > 0) =>
        /\ SameNumber(repayScore[1], RepaymentOf(BorrowCount, RepayCount, LiquidationCount))
        /\ NotAbove(Num(-150), repayScore[1])
        /\ NotAbove(repayScore[1], Num(100))

MoreLiquidationsNotBetter ==
    (repayScore # <<>> /\ BorrowCount > 0 /\ repayCounts'.liquidat >= LiquidationCount)
        => NotAbove(repayScore'[1], repayScore[1])

\* C22: with b > 0 borrow, r repay and l liquidation transactions scoreRepayment
\* returns 100 if l = 0 and r/b >= 0.8; else 60 if l/b < 0.1 and r/b >= 0.6; else
\* 0 if l/b < 0.25; else max(-150, -150 l/b).  The value is within [-150, 100], and
\* a call with at least as many liquidations and the same b and r returns no more.
C22_RepaymentCascade == []RepaymentByRatios /\ [][MoreLiquidationsNotBetter]_vars

\* one liquidation in eleven borrows with seven repayments: the second branch
C22_Witness ==
    /\ repayScore = <<Num(60)>>
    /\ BorrowCount = 11
    /\ RepayCount = 7
    /\ LiquidationCount = 1
    /\ repayCounts.both = 1

\* C23: whatever the facts, the final score of a report is within 436..593, its
\* grade is C or D, its risk level is not low, and the rounded sum is within
\* 0..1000 before the clamp, which so leaves it as it is.
C23_ScoreWithin436And593 ==
    report.made =>
        LET unit == 200 * SubScores.repayment.d IN
        /\ report.score.d = 1
        /\ report.score.n \in 436..593
        /\ report.grade \in {"C", "D"}
        /\ report.riskLevel # "low"
        /\ -(unit \div 2) <= WeightedSum200(SubScores)
        /\ WeightedSum200(SubScores) < 2001 * (unit \div 2)

\* the lowest sub-scores: no first transaction, no transactions, no balance, a
\* liquidation for the only borrow, no contracts
C23_Witness ==
    /\ report.made
    /\ SubScores = [age |-> -50, tx |-> -20, balance |-> -30, repayment |-> Num(-150),
                    diversity |-> 0]
    /\ report.score = Num(436)
    /\ report.grade = "D"

\* C24: when the list calculate scores is the one the tier-2 fallback returned,
\* whose entries carry no method, the repayment sub-score is 0 and
\* rawData.defiTransactionCount is 0; a report whose repayment sub-score is not 0
\* was made of a list mapped from the items of the tier-1 explorer.
C24_FallbackScoresNoRepayment ==
    report.made =>
        /\ FromTier2 =>
              /\ scoreRepayment(transactions.val) = Num(0)
              /\ report.factors.defiInteractions = Num(0)
              /\ report.rawData.defiTransactionCount = 0
        /\ report.factors.defiInteractions # Num(0) =>
              /\ qi = 0
              /\ tier1.items
              /\ tier1.mapped

\* a report made of a transaction the fallback found
C24_Witness ==
    /\ report.made
    /\ FromTier2
    /\ Len(transactions.val) = 1
    /\ ~transactions.val[1].isNull
    /\ report.rawData.defiTransactionCount = 0

LoadingEndsWithSubmissions == pending = 0 => isLoading = FALSE

ScoreAndComparisonAgree ==
    \/ ~creditData.made /\ ~comparisonData.made
    \/ /\ creditData.made
       /\ comparisonData.made
       /\ Num(comparisonData.userScore) = creditData.score

FailureSetsNeither == failures' > failures => UNCHANGED <<creditData, comparisonData>>

\* C25: on the page, when no started run of handleWalletSubmit is suspended any
\* more isLoading is false; creditData and comparisonData are both null, or both
\* set with comparisonData.userScore the score of creditData; a run that ends in
\* the catch leaves both as they were.
C25_PageStatesAgree ==
    /\ [](LoadingEndsWithSubmissions /\ ScoreAndComparisonAgree)
    /\ [][FailureSetsNeither]_vars

\* three runs started together: one failed, one showed its report while the last
\* was still suspended
C25_Witness ==
    /\ started = 3
    /\ pending = 1
    /\ failures = 1
    /\ creditData.made
    /\ comparisonData.userScore = 593
    /\ ~isLoading

====
